---- MODULE Spec2Model ----
(***************************************************************************)
(* Model of the brute-force calculator of src/main.py: the operators       *)
(* (operate / apply), OperationPipeline (_safe_compute / compute) and      *)
(* BruteForceCalculator (operation_sequence_candidates / run).             *)
(*                                                                         *)
(* Python values are modelled as follows.                                  *)
(*   int   an integer.  Python integers are unbounded; the only results    *)
(*         that can exceed what the model checker represents come from     *)
(*         int() of a long digit string, and ParseInt stands for every     *)
(*         such value by one of magnitude Huge.  apply compares a result   *)
(*         only with its input and with the display bound, both far below  *)
(*         Huge, so the stand-in takes the same branches.                  *)
(*   str   a sequence of one-character strings ("-", "0" .. "9").          *)
(*   a call that may raise: a record [raised, val].                        *)
(***************************************************************************)
EXTENDS Integers, Sequences, FiniteSets, TLC

VARIABLES
    start,        \* BruteForceCalculator._start / OperationPipeline._start
    target,       \* BruteForceCalculator._target / OperationPipeline._target
    max_moves,    \* BruteForceCalculator._max_moves
    operations,   \* BruteForceCalculator._operations (a tuple of operators)
    gen,          \* state of itertools.product inside operation_sequence_candidates
    op_sequence,  \* the candidate run() is working on, as positions in operations
    pos,          \* _safe_compute: position of the for loop in the sequence
    current,      \* _safe_compute: local variable current
    result,       \* compute: local variable result
    printed,      \* the sequences run() has printed, in order
    pc,           \* where run() is: "gen", "apply", "compare", "done", "aborted"
    yielded,      \* history: every candidate the generator has yielded, in order
    evaluated,    \* history: every candidate compute() returned for, with its verdict
    applied,      \* history: number of apply() calls made for the current candidate
    last          \* history: the last apply() call: operator, input and outcome

vars == <<start, target, max_moves, operations, gen, op_sequence, pos, current,
          result, printed, pc, yielded, evaluated, applied, last>>

(***************************************************************************)
(* Bounds of the model and constants of the program.                       *)
(***************************************************************************)
MaxMoves == 3
MaxStart == 3
MaxInput == 12
MaxParam == 3
Edge == 2
Huge == 1000000000
MaxDisplay == 999999

Abs(x) == IF x < 0 THEN -x ELSE x

(***************************************************************************)
(* Python str and int on decimal strings.                                  *)
(***************************************************************************)
DigitChars == <<"0", "1", "2", "3", "4", "5", "6", "7", "8", "9">>

DigitChar(d) == DigitChars[d + 1]

IsDigitChar(c) == \E d \in 0..9 : DigitChars[d + 1] = c

DigitVal(c) == CHOOSE d \in 0..9 : DigitChars[d + 1] = c

RECURSIVE StrNat(_)
StrNat(n) == IF n < 10 THEN <<DigitChar(n)>>
             ELSE StrNat(n \div 10) \o <<DigitChar(n % 10)>>

\* str(number)
Str(n) == IF n < 0 THEN <<"-">> \o StrNat(-n) ELSE StrNat(n)

\* s[::-1]
RECURSIVE Reverse(_)
Reverse(s) == IF s = <<>> THEN <<>> ELSE Reverse(Tail(s)) \o <<Head(s)>>

RECURSIVE StripZeros(_)
StripZeros(s) == IF Len(s) > 1 /\ Head(s) = "0" THEN StripZeros(Tail(s)) ELSE s

RECURSIVE NatOfDigits(_)
NatOfDigits(s) == IF s = <<>> THEN 0
                  ELSE NatOfDigits(SubSeq(s, 1, Len(s) - 1)) * 10 + DigitVal(s[Len(s)])

Raised == [raised |-> TRUE, val |-> 0]

Returned(v) == [raised |-> FALSE, val |-> v]

\* int(s) for a string of "-" and digits: an optional sign followed by at
\* least one digit, anything else raises ValueError.
ParseInt(s) ==
    LET neg == s # <<>> /\ Head(s) = "-"
        body == IF neg THEN Tail(s) ELSE s
        sig == StripZeros(body)
        mag == IF Len(sig) >= Len(StrNat(Huge)) THEN Huge ELSE NatOfDigits(sig)
    IN IF body = <<>> \/ \E i \in 1..Len(body) : ~IsDigitChar(body[i])
       THEN Raised
       ELSE Returned(IF neg THEN -mag ELSE mag)

IsPrefix(a, s) == Len(a) <= Len(s) /\ SubSeq(s, 1, Len(a)) = a

\* s.replace(a, b) for a non-empty a: every non-overlapping occurrence, left to right
RECURSIVE Replace(_, _, _)
Replace(s, a, b) ==
    IF s = <<>> THEN <<>>
    ELSE IF IsPrefix(a, s) THEN b \o Replace(SubSeq(s, Len(a) + 1, Len(s)), a, b)
    ELSE <<Head(s)>> \o Replace(Tail(s), a, b)

(***************************************************************************)
(* The operators.  An operator is a record of its class and its            *)
(* construction parameters.                                                *)
(***************************************************************************)
Multiply(factor) == [kind |-> "Multiply", a |-> factor, b |-> 0]
Add(adder) == [kind |-> "Add", a |-> adder, b |-> 0]
Divide(divisor) == [kind |-> "Divide", a |-> divisor, b |-> 0]
DigitReplace(inp, out) == [kind |-> "DigitReplace", a |-> inp, b |-> out]
DigitSum == [kind |-> "DigitSum", a |-> 0, b |-> 0]
DigitAppend(digit) == [kind |-> "DigitAppend", a |-> digit, b |-> 0]
MirrorAppend == [kind |-> "MirrorAppend", a |-> 0, b |-> 0]
Backspace == [kind |-> "Backspace", a |-> 0, b |-> 0]
ShiftLeft == [kind |-> "ShiftLeft", a |-> 0, b |-> 0]
ShiftRight == [kind |-> "ShiftRight", a |-> 0, b |-> 0]

MultiplyOperate(number, factor) == Returned(number * factor)

AddOperate(number, adder) == Returned(number + adder)

\* float(number) / divisor raises ZeroDivisionError for a zero divisor; the
\* quotient is a whole number exactly when divisor divides number.
DivideOperate(number, divisor) ==
    IF divisor = 0 THEN Raised
    ELSE IF number % Abs(divisor) # 0 THEN Returned(number)
    ELSE Returned(IF (number < 0) = (divisor < 0)
                  THEN Abs(number) \div Abs(divisor)
                  ELSE -(Abs(number) \div Abs(divisor)))

DigitReplaceOperate(number, inp, out) == ParseInt(Replace(Str(number), Str(inp), Str(out)))

RECURSIVE SumDigits(_)
SumDigits(s) == IF s = <<>> THEN 0 ELSE DigitVal(Head(s)) + SumDigits(Tail(s))

\* int(str_digit) raises ValueError on the sign character
DigitSumOperate(number) ==
    LET s == Str(number)
    IN IF \E i \in 1..Len(s) : ~IsDigitChar(s[i]) THEN Raised ELSE Returned(SumDigits(s))

DigitAppendOperate(number, digit) == ParseInt(Str(number) \o Str(digit))

MirrorAppendOperate(number) == ParseInt(Str(number) \o Reverse(Str(number)))

\* divmod(number, 10)[0]: Python's floor division
BackspaceOperate(number) == Returned(number \div 10)

ShiftLeftOperate(number) ==
    LET s == Str(number) IN ParseInt(Tail(s) \o <<Head(s)>>)

ShiftRightOperate(number) == ParseInt(Str(number % 10) \o Str(number \div 10))

operate(op, number) ==
    CASE op.kind = "Multiply" -> MultiplyOperate(number, op.a)
      [] op.kind = "Add" -> AddOperate(number, op.a)
      [] op.kind = "Divide" -> DivideOperate(number, op.a)
      [] op.kind = "DigitReplace" -> DigitReplaceOperate(number, op.a, op.b)
      [] op.kind = "DigitSum" -> DigitSumOperate(number)
      [] op.kind = "DigitAppend" -> DigitAppendOperate(number, op.a)
      [] op.kind = "MirrorAppend" -> MirrorAppendOperate(number)
      [] op.kind = "Backspace" -> BackspaceOperate(number)
      [] op.kind = "ShiftLeft" -> ShiftLeftOperate(number)
      [] op.kind = "ShiftRight" -> ShiftRightOperate(number)

(***************************************************************************)
(* OperatorBase.apply.  The outcome is a record of what was returned and   *)
(* what was raised, each a sequence of at most one element.                *)
(***************************************************************************)
Return(v) == [returned |-> <<v>>, raised |-> <<>>]

Raise(e) == [returned |-> <<>>, raised |-> <<e>>]

\* apply without its no-op check
IsNoOpNever(res, number) == FALSE

IsNoOp(res, number) == res = number

\* the display bound taken one too low
ExceedsDisplayFromBound(res) == Abs(res) >= MaxDisplay

ExceedsDisplay(res) == Abs(res) > MaxDisplay

apply(op, number) ==
    LET r == operate(op, number)
    IN IF r.raised THEN Raise("OperationFailedError")
       ELSE IF IsNoOp(r.val, number) THEN Raise("NoOperationError")
       ELSE IF ExceedsDisplay(r.val) THEN Raise("OutOfBoundsError")
       ELSE Return(r.val)

(***************************************************************************)
(* BruteForceCalculator.operation_sequence_candidates:                     *)
(* itertools.product(self._operations, repeat=self._max_moves), as the     *)
(* odometer it is.  A candidate is the tuple of positions (1 .. m) of its  *)
(* operators in self._operations.                                          *)
(***************************************************************************)
NotStarted == [started |-> FALSE, indices |-> <<>>]

\* whether next() on the generator yields (rather than raising StopIteration)
HasNext(g, m, k) ==
    IF ~g.started THEN k = 0 \/ m > 0
    ELSE \E i \in 1..k : g.indices[i] < m

\* an odometer whose first position varies fastest
NextIndicesFirstFastest(g, m, k) ==
    IF ~g.started THEN [i \in 1..k |-> 1]
    ELSE LET j == CHOOSE i \in 1..k :
                      /\ g.indices[i] < m
                      /\ \A l \in 1..(i - 1) : g.indices[l] = m
         IN [i \in 1..k |-> IF i > j THEN g.indices[i]
                            ELSE IF i = j THEN g.indices[i] + 1
                            ELSE 1]

\* the tuple the generator yields next: the rightmost position that can still
\* advance does, and every position to its right starts over
NextIndices(g, m, k) ==
    IF ~g.started THEN [i \in 1..k |-> 1]
    ELSE LET j == CHOOSE i \in 1..k :
                      /\ g.indices[i] < m
                      /\ \A l \in (i + 1)..k : g.indices[l] = m
         IN [i \in 1..k |-> IF i < j THEN g.indices[i]
                            ELSE IF i = j THEN g.indices[i] + 1
                            ELSE 1]

\* the operators of a candidate, as run() prints them
Operators(ops, indices) == [i \in 1..Len(indices) |-> ops[indices[i]]]

(***************************************************************************)
(* OperationPipeline._safe_compute and compute.                            *)
(***************************************************************************)
\* an except clause that names the base class OperatorException
CaughtAny == {"FloatError", "NoOperationError", "OutOfBoundsError", "OperationFailedError"}

\* the exceptions the except clause of _safe_compute names
Caught == {"FloatError", "NoOperationError", "OutOfBoundsError"}

\* an except clause that returns the partial value
AbortResultPartial(s, cur) == cur

\* what _safe_compute returns from the except clause
AbortResult(s, cur) == s

\* compute: result == self._target
Compute(res, tgt) == res = tgt

\* a run that reports the first success only
ReportFirstOnly(out, seq, ok) == IF ok /\ out = <<>> THEN Append(out, seq) ELSE out

\* run: the print under "if pipeline.compute(op_sequence)"
Report(out, seq, ok) == IF ok THEN Append(out, seq) ELSE out

NoCall == [op |-> [kind |-> "none", a |-> 0, b |-> 0], number |-> 0,
           out |-> [returned |-> <<>>, raised |-> <<>>]]

(***************************************************************************)
(* The configurations the search is run on.                                *)
(***************************************************************************)
\* the pools of example_level_5 and example_level_123, and pools that exercise
\* the remaining operators, a no-op operator, a failing operator and no operator
Pools == {
    <<Add(4), Multiply(4), Divide(4)>>,
    <<DigitSum, Divide(2), MirrorAppend, Backspace>>,
    <<ShiftLeft, ShiftRight, DigitAppend(1), DigitReplace(1, 2)>>,
    <<Add(0)>>,
    <<Add(1), Divide(0)>>,
    <<>> }

Starts == (-MaxStart..MaxStart) \cup {5, 22}

Targets == {3, 4, 5}

TypicalInit ==
    /\ start \in Starts
    /\ target \in Targets \cup {start}
    /\ max_moves \in 0..MaxMoves
    /\ operations \in Pools

\* every operator class, with parameters around zero
AllOperators ==
    {Multiply(f) : f \in -MaxParam..MaxParam}
    \cup {Add(x) : x \in -MaxParam..MaxParam}
    \cup {Divide(d) : d \in -MaxParam..MaxParam}
    \cup {DigitReplace(i, o) : i \in 0..MaxParam, o \in 0..MaxParam}
    \cup {DigitAppend(d) : d \in -1..MaxParam}
    \cup {DigitSum, MirrorAppend, Backspace, ShiftLeft, ShiftRight}

\* inputs around zero, around the display bound, and the largest inputs whose
\* mirror image is long
Inputs ==
    (-MaxInput..MaxInput)
    \cup {MaxDisplay - j : j \in 0..Edge}
    \cup {j - MaxDisplay : j \in 0..Edge}
    \cup {(MaxDisplay + 1) \div 2, (MaxDisplay + 1) \div 10}

\* one operator applied once to one input
SingleInit ==
    /\ start \in Inputs
    /\ target \in {0, 1}
    /\ max_moves = 1
    /\ operations \in {<<op>> : op \in AllOperators}

RunInit ==
    /\ gen = NotStarted
    /\ op_sequence = <<>>
    /\ pos = 1
    /\ current = start
    /\ result = start
    /\ printed = <<>>
    /\ pc = "gen"
    /\ yielded = <<>>
    /\ evaluated = <<>>
    /\ applied = 0
    /\ last = NoCall

Init == TypicalInit /\ RunInit

ApplyInit == SingleInit /\ RunInit

(***************************************************************************)
(* BruteForceCalculator.run, one step of its loops at a time.              *)
(***************************************************************************)
config == <<start, target, max_moves, operations>>

\* run: the generator yields the next candidate; compute and _safe_compute
\* are entered, current = self._start
Yield ==
    /\ pc = "gen"
    /\ HasNext(gen, Len(operations), max_moves)
    /\ LET nxt == NextIndices(gen, Len(operations), max_moves)
       IN /\ gen' = [started |-> TRUE, indices |-> nxt]
          /\ op_sequence' = nxt
          /\ yielded' = Append(yielded, nxt)
    /\ pos' = 1
    /\ current' = start
    /\ applied' = 0
    /\ pc' = "apply"
    /\ UNCHANGED <<config, result, printed, evaluated, last>>

\* run: the generator is exhausted, the for loop and run end
Exhausted ==
    /\ pc = "gen"
    /\ ~HasNext(gen, Len(operations), max_moves)
    /\ pc' = "done"
    /\ UNCHANGED <<config, gen, op_sequence, pos, current, result, printed,
                   yielded, evaluated, applied, last>>

Call(op, number) == [op |-> op, number |-> number, out |-> apply(op, number)]

\* _safe_compute: current = operator.apply(current) returns
ApplyReturns ==
    /\ pc = "apply"
    /\ pos <= Len(op_sequence)
    /\ LET call == Call(operations[op_sequence[pos]], current)
       IN /\ call.out.raised = <<>>
          /\ current' = call.out.returned[1]
          /\ last' = call
    /\ pos' = pos + 1
    /\ applied' = applied + 1
    /\ UNCHANGED <<config, gen, op_sequence, result, printed, pc, yielded, evaluated>>

\* _safe_compute: operator.apply(current) raises an exception the except
\* clause names: return self._start
ApplyCaught ==
    /\ pc = "apply"
    /\ pos <= Len(op_sequence)
    /\ LET call == Call(operations[op_sequence[pos]], current)
       IN /\ call.out.raised # <<>>
          /\ call.out.raised[1] \in Caught
          /\ last' = call
    /\ result' = AbortResult(start, current)
    /\ applied' = applied + 1
    /\ pc' = "compare"
    /\ UNCHANGED <<config, gen, op_sequence, pos, current, printed, yielded, evaluated>>

\* _safe_compute: operator.apply(current) raises any other exception, which
\* nothing up to run's caller handles
ApplyPropagates ==
    /\ pc = "apply"
    /\ pos <= Len(op_sequence)
    /\ LET call == Call(operations[op_sequence[pos]], current)
       IN /\ call.out.raised # <<>>
          /\ call.out.raised[1] \notin Caught
          /\ last' = call
    /\ applied' = applied + 1
    /\ pc' = "aborted"
    /\ UNCHANGED <<config, gen, op_sequence, pos, current, result, printed,
                   yielded, evaluated>>

\* _safe_compute: the for loop is over: return current
LoopEnd ==
    /\ pc = "apply"
    /\ pos > Len(op_sequence)
    /\ result' = current
    /\ pc' = "compare"
    /\ UNCHANGED <<config, gen, op_sequence, pos, current, printed, yielded,
                   evaluated, applied, last>>

\* compute returns result == self._target, and run prints the candidate if so
ComputeReturns ==
    /\ pc = "compare"
    /\ LET ok == Compute(result, target)
       IN /\ printed' = Report(printed, Operators(operations, op_sequence), ok)
          /\ evaluated' = Append(evaluated, [seq |-> op_sequence, ok |-> ok])
    /\ pc' = "gen"
    /\ UNCHANGED <<config, gen, op_sequence, pos, current, result, yielded,
                   applied, last>>

Next ==
    \/ Yield
    \/ Exhausted
    \/ ApplyReturns
    \/ ApplyCaught
    \/ ApplyPropagates
    \/ LoopEnd
    \/ ComputeReturns

Spec == Init /\ [][Next]_vars

ApplySpec == ApplyInit /\ [][Next]_vars

(***************************************************************************)
(* Properties.                                                             *)
(***************************************************************************)
RECURSIVE Pow(_, _)
Pow(m, k) == IF k = 0 THEN 1 ELSE m * Pow(m, k - 1)

\* Every operator of ops, applied in order from v, strictly changes the value
\* and stays within the display, and the value after the last one is tgt.
RECURSIVE Reaches(_, _, _)
Reaches(ops, v, tgt) ==
    IF ops = <<>> THEN v = tgt
    ELSE LET r == operate(Head(ops), v)
         IN /\ ~r.raised
            /\ r.val # v
            /\ Abs(r.val) <= 999999
            /\ Reaches(Tail(ops), r.val, tgt)

\* The position (counted from i) of the first operator of ops whose transform,
\* applied in order from v, leaves the value unchanged or leaves the display.
RECURSIVE FirstSoft(_, _, _)
FirstSoft(ops, v, i) ==
    LET r == operate(Head(ops), v)
    IN IF r.val = v \/ Abs(r.val) > 999999 THEN i
       ELSE FirstSoft(Tail(ops), r.val, i + 1)

\* The place of a candidate in odometer order, the last position varying
\* fastest: its positions read as the digits of a number in base m.
RECURSIVE Rank(_, _)
Rank(t, m) == IF t = <<>> THEN 0
              ELSE Rank(SubSeq(t, 1, Len(t) - 1), m) * m + (t[Len(t)] - 1)

SoftAborted ==
    /\ applied > 0
    /\ last.out.raised # <<>>
    /\ last.out.raised[1] \in {"NoOperationError", "OutOfBoundsError"}

\* C1: compute reports success for a sequence only if every operator of it,
\* applied in order from start, strictly changes the value and stays within
\* [-999999, 999999], and the value after the last step equals target.
C1_SuccessOnlyIfReaches ==
    \A i \in 1..Len(printed) : Reaches(printed[i], start, target)

\* C2: every apply call has exactly one outcome: a returned value of magnitude at
\* most 999999 that differs from the input, or exactly one of NoOperation,
\* OutOfBounds and OperationFailed.
C2_ApplyOutcome ==
    last # NoCall =>
        /\ Len(last.out.returned) + Len(last.out.raised) = 1
        /\ last.out.returned # <<>> =>
               /\ Abs(last.out.returned[1]) <= 999999
               /\ last.out.returned[1] # last.number
        /\ last.out.raised # <<>> =>
               last.out.raised[1] \in
                   {"NoOperationError", "OutOfBoundsError", "OperationFailedError"}

C2_Witness ==
    /\ last.out.returned # <<>>
    /\ last.op.kind = "MirrorAppend"

\* C3: when a step of the sequence signals NoOperation or OutOfBounds, the result
\* of _safe_compute is the start value, not the partial value, and the failing
\* step is the last operator applied: the first one that does not change the
\* value or leaves the display.
C3_SoftAbortDiscardsRun ==
    (pc = "compare" /\ SoftAborted) =>
        /\ result = start
        /\ applied = FirstSoft(Operators(operations, op_sequence), start, 1)

C3_Witness ==
    /\ pc = "compare"
    /\ SoftAborted
    /\ current # start
    /\ applied < Len(op_sequence)
    /\ start # target

\* C4: the candidates are yielded in odometer order over the positions of the
\* pool, the last position varying fastest: the i-th candidate yielded is the
\* k-tuple of rank i - 1, and when the generator is exhausted it has yielded
\* m^k candidates, so every k-tuple exactly once.
C4_OdometerEnumeration ==
    LET m == Len(operations)
        InOrder(i) ==
            /\ Len(yielded[i]) = max_moves
            /\ \A j \in 1..max_moves : yielded[i][j] \in 1..m
            /\ Rank(yielded[i], m) = i - 1
    IN /\ yielded # <<>> => InOrder(Len(yielded))
       /\ pc = "done" =>
              /\ Len(yielded) = Pow(m, max_moves)
              /\ \A i \in 1..Len(yielded) : InOrder(i)

C4_Witness ==
    /\ pc = "done"
    /\ Len(operations) = 4
    /\ max_moves = 3
    /\ Len(yielded) = 64

\* C5: when run finishes, compute has returned for every candidate, and the
\* sequences printed are exactly the candidates compute returned true for,
\* each once, in enumeration order.
C5_AllWinnersReported ==
    pc = "done" =>
        LET winners == SelectSeq(evaluated, LAMBDA e : e.ok)
        IN /\ Len(evaluated) = Pow(Len(operations), max_moves)
           /\ \A i \in 1..Len(evaluated) : evaluated[i].seq = yielded[i]
           /\ printed = [i \in 1..Len(winners) |->
                            Operators(operations, winners[i].seq)]

C5_Witness ==
    /\ pc = "done"
    /\ start # target
    /\ Len(printed) >= 2
    /\ ~evaluated[Len(evaluated)].ok

\* C6: an OperationFailed raised by apply is not absorbed by the pipeline: run is
\* aborted by it, compute never returns for that candidate, and nothing more
\* happens: no later candidate is yielded or evaluated.
C6_OperationFailedAbortsRun ==
    (last.out.raised = <<"OperationFailedError">>) =>
        /\ pc = "aborted"
        /\ Len(evaluated) = Len(yielded) - 1
        /\ ~ENABLED Next

C6_Witness ==
    /\ pc = "aborted"
    /\ last.out.raised = <<"OperationFailedError">>
    /\ Len(yielded) < Pow(Len(operations), max_moves)
    /\ applied > 1

\* C7: when a sequence applies Divide(d) to a value n with n % d # 0, the step is
\* a no-op abort and compute does not report success for that sequence.
C7_InexactDivideNeverSucceeds ==
    (/\ pc = "gen"
     /\ applied > 0
     /\ last.op.kind = "Divide"
     /\ last.op.a # 0
     /\ last.number % Abs(last.op.a) # 0) =>
        /\ last.out.raised = <<"NoOperationError">>
        /\ ~evaluated[Len(evaluated)].ok

\* C8: with start = 5, target = 5, one move and the pool {Add(0)}, Add(0).apply(5)
\* signals NoOperation and the search reports no winning sequence.
C8_NoOpAtEqualStartAndTarget ==
    (start = 5 /\ target = 5 /\ max_moves = 1 /\ operations = <<Add(0)>>) =>
        /\ last # NoCall => last.out.raised = <<"NoOperationError">>
        /\ pc = "done" => printed = <<>>

\* C9: for a transform result r that differs from the input, apply signals
\* OutOfBounds when abs(r) >= 1000000 and returns r when abs(r) <= 999999.
C9_DisplayBoundExact ==
    last # NoCall =>
        LET r == operate(last.op, last.number)
        IN (~r.raised /\ r.val # last.number) =>
               /\ Abs(r.val) >= 1000000 => last.out = Raise("OutOfBoundsError")
               /\ Abs(r.val) <= 999999 => last.out = Return(r.val)

C9_Witness ==
    /\ last # NoCall
    /\ operate(last.op, last.number) = Returned(1000000)
    /\ last.out = Raise("OutOfBoundsError")

\* C10: the transform of Backspace is division by 10 truncating toward zero, for
\* negative inputs too: it gives 0 for every input strictly between -10 and 10,
\* so Backspace.apply signals NoOperation only for the input 0.
C10_BackspaceTruncates ==
    (last # NoCall /\ last.op = Backspace) =>
        LET n == last.number
            trunc == IF n < 0 THEN -((-n) \div 10) ELSE n \div 10
        IN /\ operate(Backspace, n) = Returned(trunc)
           /\ (-10 < n /\ n < 10) => operate(Backspace, n) = Returned(0)
           /\ last.out = Raise("NoOperationError") => n = 0

====
